---------------------------- MODULE Spec2Model ----------------------------
(***************************************************************************)
(* The video-analysis Flask application of src/app.py as a state machine.  *)
(*                                                                         *)
(* One worker process serves requests to /analyze one after the other.     *)
(* The process state is the global OpenAI client, the environment key it   *)
(* was built from, the session, the scratch directories on disk and a      *)
(* clock.  A request is a sequence of steps of analyze(); the external     *)
(* calls (mkdtemp, the upload save, ffmpeg, the directory listing, the     *)
(* frame read, the two remote calls, the session and the JSON response)    *)
(* each either succeed or raise, chosen nondeterministically.              *)
(***************************************************************************)
EXTENDS Naturals, Sequences, FiniteSets

(******************************* bounds ************************************)
\* The decoder writes between 0 and MaxFrames frames.
MaxFrames == 2
\* Requests served by the process in one behaviour.
MaxRequests == 2

(************************* text as character lists *************************)
\* Text received from outside (the environment key, a vision reply) is a
\* sequence of characters, so that str.strip() and str.startswith() are
\* computed; text the program builds is a string.  A character is the
\* string that holds it, or, for a character a string of this module cannot
\* hold, the string that names its code point ("U+3000").

\* The characters str.strip() removes: the 29 code points for which
\* str.isspace() holds.
Whitespace ==
    { "\t", "\n", "U+000B", "\f", "\r", "U+001C", "U+001D", "U+001E", "U+001F",
      " ", "U+0085", "U+00A0", "U+1680", "U+2000", "U+2001", "U+2002",
      "U+2003", "U+2004", "U+2005", "U+2006", "U+2007", "U+2008", "U+2009",
      "U+200A", "U+2028", "U+2029", "U+202F", "U+205F", "U+3000" }

\* The characters api_key.strip('\ufeff\r\n\t ') removes at load time.
KeyStripChars == {"U+FEFF", "\r", "\n", "\t", " "}

RECURSIVE LStrip(_, _)
LStrip(s, chars) ==
    IF s /= <<>> /\ Head(s) \in chars THEN LStrip(Tail(s), chars) ELSE s

RECURSIVE RStrip(_, _)
RStrip(s, chars) ==
    IF s /= <<>> /\ s[Len(s)] \in chars
    THEN RStrip(SubSeq(s, 1, Len(s) - 1), chars)
    ELSE s

\* str.strip(chars)
StripChars(s, chars) == RStrip(LStrip(s, chars), chars)

\* str.strip()
Strip(s) == StripChars(s, Whitespace)

\* str.startswith(prefix)
StartsWith(s, prefix) ==
    /\ Len(s) >= Len(prefix)
    /\ SubSeq(s, 1, Len(prefix)) = prefix

\* The string a character list spells.
RECURSIVE Text(_)
Text(s) == IF s = <<>> THEN "" ELSE Head(s) \o Text(Tail(s))

\* "sep".join(strings)
RECURSIVE Join(_, _)
Join(strs, sep) ==
    IF strs = <<>> THEN ""
    ELSE IF Len(strs) = 1 THEN strs[1]
    ELSE strs[1] \o sep \o Join(Tail(strs), sep)

Digits == <<"0", "1", "2", "3", "4", "5", "6", "7", "8", "9">>

\* str(n) for a natural number n
RECURSIVE IntToStr(_)
IntToStr(n) ==
    IF n < 10 THEN Digits[n + 1]
    ELSE IntToStr(n \div 10) \o Digits[(n % 10) + 1]

\* f"{n:02d}"
Pad2(n) == IF n < 10 THEN "0" \o IntToStr(n) ELSE IntToStr(n)


(***************************** inputs drawn ********************************)
\* Values of OPENAI_API_KEY: empty, a key of the wrong form, a well-formed
\* key, and well-formed keys with stray characters around them (a space and
\* a line feed, a form feed, a byte-order mark).
EnvKeys ==
    { <<>>,
      <<"p", "k", "-", "1">>,
      <<"s", "k", "-", "1">>,
      <<" ", "s", "k", "-", "1", "\n">>,
      <<"\f", "s", "k", "-", "1">>,
      <<"U+FEFF", "s", "k", "-", "1">> }

\* os.environ as the process starts: OPENAI_API_KEY unset, or set to a key.
NoEnv == [k \in {} |-> <<>>]
Environs == {NoEnv} \cup {[OPENAI_API_KEY |-> key] : key \in EnvKeys}

\* What a .env file can hold: nothing for the key, or a key.
DotEnvFiles == {NoEnv, [OPENAI_API_KEY |-> <<"s", "k", "-", "1", "\n">>]}

\* Upload file names: none given, and a video.
FileNames == {"", "clip.mp4"}

\* Raw reply of the vision model (response.choices[0].message.content): an
\* answer between whitespace that str.strip() removes.
VisionReplies ==
    { <<"U+3000", " ", "B", "\f", "\n">> }

\* Messages of the exceptions the collaborators raise.
VisionErrors == {"timeout"}
SynthErrors == {"rate limit"}

\* Raw replies of the synthesis model: a report in the requested schema and
\* text that is not JSON.
GoodJson == "{\"genre\": \"Vlog\", \"genre_confidence\": \"90\", \"genre_reason\": \"r\", \"parts\": [], \"advice\": []}"
NotJson == "genre: Vlog"
SynthReplies == {GoodJson, NotJson}

(************************** pure program functions *************************)
\* The interval analyze() passes to extract_frames and analyze_frame (1.0).
Interval == 1

\* A variant of Timestamp that counts frames from zero.
TimestampZeroBased(frame_number, interval) == (frame_number - 1) * interval

\* analyze_frame: timestamp = frame_number * interval
Timestamp(frame_number, interval) == frame_number * interval

\* analyze_frame: minutes, seconds and f"{minutes:02d}:{seconds:04.1f}" for
\* a whole number of seconds.
TimeStr(timestamp) ==
    LET minutes == timestamp \div 60
        seconds == timestamp % 60
    IN  Pad2(minutes) \o ":" \o Pad2(seconds) \o ".0"

\* A variant of ErrorContent that drops the error prefix.
ErrorContentBare(msg) == msg

\* analyze_frame, except branch: f"エラー: {str(e)}"
ErrorContent(msg) == "エラー: " \o msg

\* analyze_frame, try branch: the FrameResult of an answered call.
FrameResultOk(frame_number, interval, raw) ==
    [ timestamp    |-> TimeStr(Timestamp(frame_number, interval)),
      time_seconds |-> Timestamp(frame_number, interval),
      content      |-> Text(Strip(raw)) ]

\* analyze_frame, except branch: the FrameResult of a failed call.
FrameResultErr(frame_number, interval, msg) ==
    [ timestamp    |-> TimeStr(Timestamp(frame_number, interval)),
      time_seconds |-> Timestamp(frame_number, interval),
      content      |-> ErrorContent(msg) ]

\* generate_final_report: "\n".join(f"{r['timestamp']} | {r['content']}")
FramesSummary(results) ==
    Join([k \in 1..Len(results) |->
             results[k].timestamp \o " | " \o results[k].content], "\n")

\* generate_final_report: frame_results[-1]['time_seconds'] if frame_results else 0
TotalDuration(results) ==
    IF results /= <<>> THEN results[Len(results)].time_seconds ELSE 0

\* json.loads on the replies of SynthReplies: the parsed object, or the
\* message of the JSONDecodeError.
JsonLoads(text) ==
    CASE text = GoodJson ->
           [ ok |-> TRUE, error |-> "",
             value |-> [ genre |-> "Vlog", genre_confidence |-> "90",
                         genre_reason |-> "r", parts |-> <<>>, advice |-> <<>> ] ]
      [] OTHER ->
           [ ok |-> FALSE, error |-> "Expecting value: line 1 column 1 (char 0)",
             value |-> [ genre |-> "" ] ]

\* generate_final_report, except branch: the fallback report.  The fixed
\* Japanese sentence that precedes the message in genre_reason ("an error
\* occurred during analysis: ") is written in ASCII here.
ReasonPrefix == "analysis error: "

\* A variant of FallbackReport without the error marker in genre.
FallbackReportUnmarked(msg) ==
    [ genre            |-> "",
      genre_confidence |-> "0",
      genre_reason     |-> ReasonPrefix \o msg,
      parts            |-> <<>>,
      advice           |-> <<>> ]

FallbackReport(msg) ==
    [ genre            |-> "エラー",
      genre_confidence |-> "0",
      genre_reason     |-> ReasonPrefix \o msg,
      parts            |-> <<>>,
      advice           |-> <<>> ]

\* ord(c) for the characters of a frame file's name.
Ord(c) ==
    CASE c = "." -> 46
      [] c = "0" -> 48 [] c = "1" -> 49 [] c = "2" -> 50 [] c = "3" -> 51
      [] c = "4" -> 52 [] c = "5" -> 53 [] c = "6" -> 54 [] c = "7" -> 55
      [] c = "8" -> 56 [] c = "9" -> 57
      [] c = "_" -> 95 [] c = "a" -> 97 [] c = "e" -> 101 [] c = "f" -> 102
      [] c = "g" -> 103 [] c = "j" -> 106 [] c = "m" -> 109 [] c = "p" -> 112
      [] c = "r" -> 114

\* The decimal digits of n, most significant first.
RECURSIVE DigitChars(_)
DigitChars(n) ==
    IF n < 10 THEN <<Digits[n + 1]>>
    ELSE Append(DigitChars(n \div 10), Digits[(n % 10) + 1])

\* The width of ffmpeg's frame counter in 'frame_%04d.jpg'.
FramePad == 4

RECURSIVE ZeroPad(_, _)
ZeroPad(chars, width) ==
    IF Len(chars) >= width THEN chars ELSE ZeroPad(<<"0">> \o chars, width)

\* extract_frames: the name 'frame_%04d.jpg' gives frame number k.
FrameName(k) ==
    <<"f", "r", "a", "m", "e", "_">> \o ZeroPad(DigitChars(k), FramePad)
        \o <<".", "j", "p", "g">>

\* a < b for two strings, as sorted() compares the paths.
RECURSIVE StrLess(_, _)
StrLess(a, b) ==
    IF b = <<>> THEN FALSE
    ELSE IF a = <<>> THEN TRUE
    ELSE IF Head(a) = Head(b) THEN StrLess(Tail(a), Tail(b))
    ELSE Ord(Head(a)) < Ord(Head(b))

\* A variant of SortedFrames that lists the frames last name first.
RECURSIVE SortedFramesDescending(_)
SortedFramesDescending(files) ==
    IF files = {} THEN <<>>
    ELSE LET most == CHOOSE f \in files :
                        \A g \in files \ {f} : StrLess(FrameName(g), FrameName(f))
         IN  <<most>> \o SortedFramesDescending(files \ {most})

\* sorted(Path(frames_dir).glob('frame_*.jpg')): the frames in the order of
\* their file names, compared as strings (frame_10000.jpg sorts before
\* frame_9999.jpg).
RECURSIVE SortedFrames(_)
SortedFrames(files) ==
    IF files = {} THEN <<>>
    ELSE LET least == CHOOSE f \in files :
                         \A g \in files \ {f} : StrLess(FrameName(f), FrameName(g))
         IN  <<least>> \o SortedFrames(files \ {least})

\* A variant of NoFrames that never reports an empty listing.
NoFramesNever(listed) == FALSE

\* analyze: `if not frames`
NoFrames(listed) == listed = <<>>

\* A variant of NoFileSelected that forgets the empty file name.
NoFileSelectedPartOnly(hasVideo, filename) == ~hasVideo

\* analyze: 'video' not in request.files, or video.filename == ''
NoFileSelected(hasVideo, filename) == ~hasVideo \/ filename = ""

\* os.environ.get('OPENAI_API_KEY', '')
EnvGet(env) == IF "OPENAI_API_KEY" \in DOMAIN env THEN env.OPENAI_API_KEY ELSE <<>>

\* init_openai: the key read from the environment is stripped, must be
\* non-empty and must start with 'sk-'.
KeyAccepted(key) ==
    LET api_key == Strip(key)
    IN  api_key /= <<>> /\ StartsWith(api_key, <<"s", "k", "-">>)

\* load_dotenv(): the variables of the .env file that the environment does
\* not hold yet are added to it.
LoadDotenv(env, file) ==
    [k \in DOMAIN env \cup DOMAIN file |-> IF k \in DOMAIN env THEN env[k] ELSE file[k]]

\* Module load, lines 22-32: when the stripped key is empty and dotenv can
\* be imported, the .env file is loaded.
EnvAfterDotenv(env, importable, file) ==
    IF Strip(EnvGet(env)) = <<>> /\ importable THEN LoadDotenv(env, file) ELSE env

\* Module load, lines 34-37: a non-empty stripped key is written back to
\* the environment with stray characters removed; otherwise the environment
\* stays as it is.
NormalizeKey(env) ==
    LET api_key == Strip(EnvGet(env))
    IN  IF api_key /= <<>>
        THEN [k \in DOMAIN env \cup {"OPENAI_API_KEY"} |->
                 IF k = "OPENAI_API_KEY" THEN StripChars(api_key, KeyStripChars)
                 ELSE env[k]]
        ELSE env

\* Lines 22-37 together: the environment once the module has read its key.
EnvAtLoad(env, importable, file) ==
    NormalizeKey(EnvAfterDotenv(env, importable, file))

(****************************** messages **********************************)
\* The three fixed error messages of analyze (Japanese in the source).
ErrNoClient == "OpenAI API key is not set"
ErrNoFile == "no video file selected"
ErrNoFrames == "no frames could be extracted"

\* str(e) of the exceptions the steps of analyze can raise.
MkdtempError == "mkdtemp failed"
SaveError == "save failed"
DecoderError == "ffmpeg returned non-zero exit status 1"
GlobError == "listing failed"
EncodeError == "frame unreadable"
SessionError == "session unavailable"
JsonifyError == "response not serializable"

(******************************** state ************************************)
VARIABLES
    environ,        \* os.environ: OPENAI_API_KEY, when set, as a character list
    client,         \* the global client: "None" or "Client"
    initCalls,      \* calls of init_openai so far
    session,        \* the session: a function from its keys to their values
    disk,           \* scratch directories of the request being served:
                    \* directory -> its files
    leaked,         \* directories that earlier requests left on disk
    served,         \* requests that have returned
    clock,          \* the wall clock, in seconds
    pc,             \* the position of the worker
    hasVideo,       \* 'video' in request.files
    filename,       \* video.filename
    temp_dir,       \* analyze's temp_dir (0: not created)
    frames_dir,     \* analyze's frames_dir (0: not created)
    frames,         \* analyze's sorted frame list
    frame_results,  \* analyze's frame_results
    final_report,   \* analyze's final_report
    exc,            \* the message of the exception being handled
    resp,           \* what analyze returned, or the exception it let out
    sessionBefore,  \* history: the session when the request arrived
    initAtStart,    \* history: initCalls when the request arrived
    created,        \* history: the directories this request created
    decodeCalls,    \* history: runs of ffmpeg in this request
    visionLog,      \* history: the vision calls of this request, in order
    synthLog        \* history: the synthesis calls of this request, in order

procVars == <<environ, client, initCalls, session, disk, served, leaked, clock>>
reqVars == <<hasVideo, filename, temp_dir, frames_dir, frames, frame_results,
             final_report, exc, resp>>
histVars == <<sessionBefore, initAtStart, created, decodeCalls, visionLog,
              synthLog>>
vars == <<procVars, pc, reqVars, histVars>>

\* The name of video.mp4 among the files of a directory; frame_%04d.jpg
\* number k is file k.
VideoFile == 0

EmptySession == [k \in {} |-> 0]
NoFiles == [d \in {} |-> {}]
NoReport == [genre |-> ""]
NoResp == [kind |-> "none"]

\* analyze's error returns: jsonify({'error': msg}), status
ErrorResp(msg, status) == [kind |-> "error", status |-> status, error |-> msg]

\* analyze's success return
SuccessResp(n, report) ==
    [kind |-> "success", status |-> 200, total_frames |-> n, report |-> report]

\* An exception that leaves analyze.
Raised(msg) == [kind |-> "raised", error |-> msg]

\* tempfile.mkdtemp(): a directory that does not exist yet.
FreshDir(d) == CHOOSE n \in 1..(Cardinality(DOMAIN d) + 1) : n \notin DOMAIN d

MkDir(d, n) == [k \in DOMAIN d \cup {n} |-> IF k = n THEN {} ELSE d[k]]

\* What shutil.rmtree(path, ignore_errors=True) can leave of a directory
\* holding `files`: nothing, or, when removals fail, the directory with the
\* files that could not be removed.
RmOutcomes(files) ==
    {[removed |-> TRUE, left |-> {}]}
        \cup {[removed |-> FALSE, left |-> kept] : kept \in SUBSET files}

\* shutil.rmtree(path, ignore_errors=True) with the outcome `out`.
RmTree(d, n, out) ==
    IF out.removed THEN [k \in DOMAIN d \ {n} |-> d[k]]
    ELSE [d EXCEPT ![n] = out.left]

\* Path(frames_dir).glob('frame_*.jpg')
Glob(files) == {f \in files : f /= VideoFile}

\* A variant of SetItem that replaces the session by the one item.
SetItemReplace(s, key, value) == [k \in {key} |-> value]

\* session[key] = value
SetItem(s, key, value) ==
    [k \in DOMAIN s \cup {key} |-> IF k = key THEN value ELSE s[k]]

\* init_openai: the client after the call.
InitOpenAI(old, key, ctorOk) ==
    IF KeyAccepted(key) /\ ctorOk THEN "Client" ELSE old

\* The position after the for loop has taken `results` from `listed`.
AfterFrame(results, listed) ==
    IF Len(results) < Len(listed) THEN "loop" ELSE "synth"

\* datetime.now().strftime('%Y-%m-%d %H:%M:%S'): the clock to the second.
Now == clock

Init ==
    /\ environ \in Environs
    /\ client = "None"
    /\ initCalls = 0
    /\ session = EmptySession
    /\ disk = NoFiles
    /\ served = 0
    /\ leaked = 0
    /\ clock = 1
    /\ pc = "load"
    /\ hasVideo = FALSE
    /\ filename = ""
    /\ temp_dir = 0
    /\ frames_dir = 0
    /\ frames = <<>>
    /\ frame_results = <<>>
    /\ final_report = NoReport
    /\ exc = ""
    /\ resp = NoResp
    /\ sessionBefore = EmptySession
    /\ initAtStart = 0
    /\ created = {}
    /\ decodeCalls = 0
    /\ visionLog = <<>>
    /\ synthLog = <<>>

(******************************* actions ***********************************)
\* Module load (lines 22-37 and 421-426): the key is read, from a .env file
\* when the environment has none, and written back normalised; then
\* init_openai() runs once.
ModuleLoad ==
    /\ pc = "load"
    /\ \E ctorOk \in BOOLEAN, importable \in BOOLEAN, file \in DotEnvFiles :
         /\ environ' = EnvAtLoad(environ, importable, file)
         /\ client' = InitOpenAI(client, EnvGet(environ'), ctorOk)
    /\ initCalls' = initCalls + 1
    /\ pc' = "idle"
    /\ UNCHANGED <<session, disk, served, leaked, clock, reqVars, histVars>>

\* analyze, lines 275-284: a request arrives and is validated.
Validate ==
    /\ pc = "idle"
    /\ served < MaxRequests
    /\ \E hv \in BOOLEAN, fn \in FileNames :
         /\ hasVideo' = hv
         /\ filename' = fn
         /\ IF client = "None"
            THEN /\ resp' = ErrorResp(ErrNoClient, 500)
                 /\ pc' = "returned"
            ELSE IF NoFileSelected(hv, fn)
            THEN /\ resp' = ErrorResp(ErrNoFile, 400)
                 /\ pc' = "returned"
            ELSE /\ resp' = NoResp
                 /\ pc' = "mk_temp"
    /\ sessionBefore' = session
    /\ initAtStart' = initCalls
    /\ UNCHANGED <<procVars, temp_dir, frames_dir, frames, frame_results,
                   final_report, exc, created, decodeCalls, visionLog, synthLog>>

\* analyze, line 287: temp_dir = tempfile.mkdtemp(), outside the try.
MkTemp ==
    /\ pc = "mk_temp"
    /\ \/ /\ temp_dir' = FreshDir(disk)
          /\ disk' = MkDir(disk, FreshDir(disk))
          /\ created' = created \cup {FreshDir(disk)}
          /\ pc' = "mk_frames"
          /\ UNCHANGED resp
       \/ /\ resp' = Raised(MkdtempError)
          /\ pc' = "returned"
          /\ UNCHANGED <<temp_dir, disk, created>>
    /\ UNCHANGED <<environ, client, initCalls, session, served, leaked, clock,
                   hasVideo, filename, frames_dir, frames, frame_results,
                   final_report, exc, sessionBefore, initAtStart, decodeCalls,
                   visionLog, synthLog>>

\* analyze, line 288: frames_dir = tempfile.mkdtemp(), outside the try.
MkFrames ==
    /\ pc = "mk_frames"
    /\ \/ /\ frames_dir' = FreshDir(disk)
          /\ disk' = MkDir(disk, FreshDir(disk))
          /\ created' = created \cup {FreshDir(disk)}
          /\ pc' = "save"
          /\ UNCHANGED resp
       \/ /\ resp' = Raised(MkdtempError)
          /\ pc' = "returned"
          /\ UNCHANGED <<frames_dir, disk, created>>
    /\ UNCHANGED <<environ, client, initCalls, session, served, leaked, clock,
                   hasVideo, filename, temp_dir, frames, frame_results,
                   final_report, exc, sessionBefore, initAtStart, decodeCalls,
                   visionLog, synthLog>>

\* analyze, lines 292-293: video.save(os.path.join(temp_dir, 'video.mp4'))
\* opens the file and copies the upload into it; a save that fails has
\* failed opening the file, or while copying, with the file created.
SaveVideo ==
    /\ pc = "save"
    /\ \/ /\ disk' = [disk EXCEPT ![temp_dir] = @ \cup {VideoFile}]
          /\ pc' = "extract"
          /\ UNCHANGED exc
       \/ /\ exc' = SaveError
          /\ pc' = "except"
          /\ \E opened \in BOOLEAN :
               disk' = IF opened
                       THEN [disk EXCEPT ![temp_dir] = @ \cup {VideoFile}]
                       ELSE disk
    /\ UNCHANGED <<environ, client, initCalls, session, served, leaked, clock,
                   hasVideo, filename, temp_dir, frames_dir, frames,
                   frame_results, final_report, resp, histVars>>

\* analyze, line 299, and extract_frames: one run of ffmpeg with check=True.
\* It writes frame_0001.jpg .. frame_000n.jpg; a run that fails may have
\* written frames before it failed.
ExtractFrames ==
    /\ pc = "extract"
    /\ decodeCalls' = decodeCalls + 1
    /\ \/ /\ \E n \in 0..MaxFrames :
               disk' = [disk EXCEPT ![frames_dir] = @ \cup (1..n)]
          /\ pc' = "list"
          /\ UNCHANGED exc
       \/ /\ \E n \in 0..MaxFrames :
               disk' = [disk EXCEPT ![frames_dir] = @ \cup (1..n)]
          /\ exc' = DecoderError
          /\ pc' = "except"
    /\ UNCHANGED <<environ, client, initCalls, session, served, leaked, clock,
                   hasVideo, filename, temp_dir, frames_dir, frames,
                   frame_results, final_report, resp, sessionBefore,
                   initAtStart, created, visionLog, synthLog>>

\* analyze, lines 302-305: the frames are listed in sorted order; none
\* ends the request with the 'no frames' error.
ListFrames ==
    /\ pc = "list"
    /\ \/ /\ frames' = SortedFrames(Glob(disk[frames_dir]))
          /\ IF NoFrames(frames')
             THEN /\ resp' = ErrorResp(ErrNoFrames, 500)
                  /\ pc' = "finally"
             ELSE /\ resp' = resp
                  /\ pc' = AfterFrame(<<>>, frames')
          /\ UNCHANGED exc
       \/ /\ exc' = GlobError
          /\ pc' = "except"
          /\ UNCHANGED <<frames, resp>>
    /\ frame_results' = <<>>
    /\ UNCHANGED <<procVars, hasVideo, filename, temp_dir, frames_dir,
                   final_report, histVars>>

\* analyze, lines 313-316, and analyze_frame: one turn of the loop.  The
\* frame is read and encoded outside analyze_frame's try; the remote call
\* and the reading of its reply are inside it.
AnalyzeFrame ==
    /\ pc = "loop"
    /\ LET i == Len(frame_results) + 1
           frame_path == frames[i]
       IN  \/ /\ exc' = EncodeError
              /\ pc' = "except"
              /\ UNCHANGED <<frame_results, visionLog>>
           \/ \E raw \in VisionReplies :
                /\ visionLog' = Append(visionLog,
                       [frame |-> frame_path, ok |-> TRUE, raw |-> raw, msg |-> ""])
                /\ frame_results' =
                       Append(frame_results, FrameResultOk(i, Interval, raw))
                /\ pc' = AfterFrame(frame_results', frames)
                /\ UNCHANGED exc
           \/ \E msg \in VisionErrors :
                /\ visionLog' = Append(visionLog,
                       [frame |-> frame_path, ok |-> FALSE, raw |-> <<>>, msg |-> msg])
                /\ frame_results' =
                       Append(frame_results, FrameResultErr(i, Interval, msg))
                /\ pc' = AfterFrame(frame_results', frames)
                /\ UNCHANGED exc
    /\ UNCHANGED <<procVars, hasVideo, filename, temp_dir, frames_dir, frames,
                   final_report, resp, sessionBefore, initAtStart, created,
                   decodeCalls, synthLog>>

\* analyze, line 322, and generate_final_report: one remote call; a reply
\* that parses is the report, anything else gives the fallback report.
GenerateFinalReport ==
    /\ pc = "synth"
    /\ \/ \E text \in SynthReplies :
            /\ final_report' = IF JsonLoads(text).ok
                               THEN JsonLoads(text).value
                               ELSE FallbackReport(JsonLoads(text).error)
            /\ synthLog' = Append(synthLog,
                   [ summary        |-> FramesSummary(frame_results),
                     total_duration |-> TotalDuration(frame_results),
                     results        |-> frame_results,
                     raised         |-> FALSE,
                     text           |-> text ])
       \/ \E msg \in SynthErrors :
            /\ final_report' = FallbackReport(msg)
            /\ synthLog' = Append(synthLog,
                   [ summary        |-> FramesSummary(frame_results),
                     total_duration |-> TotalDuration(frame_results),
                     results        |-> frame_results,
                     raised         |-> TRUE,
                     text           |-> "" ])
    /\ pc' = "store_report"
    /\ UNCHANGED <<procVars, hasVideo, filename, temp_dir, frames_dir, frames,
                   frame_results, exc, resp, sessionBefore, initAtStart,
                   created, decodeCalls, visionLog>>

\* analyze, line 325: session['last_report'] = final_report
StoreReport ==
    /\ pc = "store_report"
    /\ \/ /\ session' = SetItem(session, "last_report", final_report)
          /\ pc' = "store_date"
          /\ UNCHANGED exc
       \/ /\ exc' = SessionError
          /\ pc' = "except"
          /\ UNCHANGED session
    /\ UNCHANGED <<environ, client, initCalls, disk, served, leaked, clock,
                   hasVideo, filename, temp_dir, frames_dir, frames,
                   frame_results, final_report, resp, histVars>>

\* analyze, line 326: session['analysis_date'] = datetime.now().strftime(...)
StoreDate ==
    /\ pc = "store_date"
    /\ \/ /\ session' = SetItem(session, "analysis_date", Now)
          /\ pc' = "respond"
          /\ UNCHANGED exc
       \/ /\ exc' = SessionError
          /\ pc' = "except"
          /\ UNCHANGED session
    /\ UNCHANGED <<environ, client, initCalls, disk, served, leaked, clock,
                   hasVideo, filename, temp_dir, frames_dir, frames,
                   frame_results, final_report, resp, histVars>>

\* analyze, lines 330-334: the success response is built and returned.
Respond ==
    /\ pc = "respond"
    /\ \/ /\ resp' = SuccessResp(Len(frames), final_report)
          /\ pc' = "finally"
          /\ UNCHANGED exc
       \/ /\ exc' = JsonifyError
          /\ pc' = "except"
          /\ UNCHANGED resp
    /\ UNCHANGED <<procVars, hasVideo, filename, temp_dir, frames_dir, frames,
                   frame_results, final_report, histVars>>

\* analyze, lines 336-340: the top-level handler turns the exception into
\* the generic error response.
ExceptHandler ==
    /\ pc = "except"
    /\ resp' = ErrorResp(exc, 500)
    /\ pc' = "finally"
    /\ UNCHANGED <<procVars, hasVideo, filename, temp_dir, frames_dir, frames,
                   frame_results, final_report, exc, histVars>>

\* analyze, lines 342-345: shutil.rmtree(..., ignore_errors=True) on both
\* scratch directories.  Each call removes its directory, or fails without
\* a sign and leaves it with the files it could not remove.
Finally ==
    /\ pc = "finally"
    /\ \E out1 \in RmOutcomes(disk[temp_dir]), out2 \in RmOutcomes(disk[frames_dir]) :
         disk' = RmTree(RmTree(disk, temp_dir, out1), frames_dir, out2)
    /\ pc' = "returned"
    /\ UNCHANGED <<environ, client, initCalls, session, served, leaked, clock,
                   reqVars, histVars>>

\* The worker is ready for the next request: the locals of analyze are
\* gone; the next request comes within the same second or later.  What the
\* request left in its scratch directories stays on disk for good: mkdtemp
\* never returns an existing name and no later request reads, lists or
\* removes it, so only the number of such directories is kept.
Finish ==
    /\ pc = "returned"
    /\ served' = served + 1
    /\ clock' \in {clock, clock + 1}
    /\ pc' = "idle"
    /\ hasVideo' = FALSE
    /\ filename' = ""
    /\ temp_dir' = 0
    /\ frames_dir' = 0
    /\ frames' = <<>>
    /\ frame_results' = <<>>
    /\ final_report' = NoReport
    /\ exc' = ""
    /\ resp' = NoResp
    /\ sessionBefore' = session
    /\ initAtStart' = initCalls
    /\ created' = {}
    /\ decodeCalls' = 0
    /\ visionLog' = <<>>
    /\ synthLog' = <<>>
    /\ leaked' = leaked + Cardinality(DOMAIN disk)
    /\ disk' = NoFiles
    /\ UNCHANGED <<environ, client, initCalls, session>>

Next ==
    \/ ModuleLoad
    \/ Validate
    \/ MkTemp
    \/ MkFrames
    \/ SaveVideo
    \/ ExtractFrames
    \/ ListFrames
    \/ AnalyzeFrame
    \/ GenerateFinalReport
    \/ StoreReport
    \/ StoreDate
    \/ Respond
    \/ ExceptHandler
    \/ Finally
    \/ Finish

Spec == Init /\ [][Next]_vars

(****************************** properties *********************************)
NoFramesResp == ErrorResp(ErrNoFrames, 500)
NoFileResp == ErrorResp(ErrNoFile, 400)
NoClientResp == ErrorResp(ErrNoClient, 500)

\* The answer a vision reply carries once its surrounding whitespace is gone.
ExpectedAnswer(raw) ==
    CASE raw = <<"U+3000", " ", "B", "\f", "\n">> -> "B"

\* C1: once analyze has returned or raised, no scratch directory the
\* request created exists on disk, also when creating the second one failed.
C1_ScratchDirsGone ==
    pc = "returned" => \A d \in created : d \notin DOMAIN disk

\* C2: if the decoder completes and the listing finds zero frames, analyze
\* answers with the 'no frames' error (status 500), and a request that gets
\* that answer made no vision call and no synthesis call.
C2_ZeroFramesStops ==
    /\ [][ ( /\ pc = "list"
             /\ Glob(disk[frames_dir]) = {}
             /\ pc' /= "except" )
           => ( /\ pc' = "finally"
                /\ resp' = NoFramesResp ) ]_vars
    /\ [](resp = NoFramesResp =>
            /\ decodeCalls = 1
            /\ visionLog = <<>>
            /\ synthLog = <<>>)

C2_Witness ==
    /\ pc = "returned"
    /\ resp = NoFramesResp
    /\ decodeCalls = 1

\* C3: with N >= 1 frames, each vision call that fails leaves an error
\* string ('エラー: ' and the message) as the content of its own frame only,
\* each call that is answered leaves the answer; no vision failure reaches
\* the top-level handler, and synthesis is called with all N results.
C3_VisionFailureIsolated ==
    /\ Len(frame_results) = Len(visionLog)
    /\ \A k \in 1..Len(frame_results) :
         frame_results[k].content =
            IF visionLog[k].ok
            THEN ExpectedAnswer(visionLog[k].raw)
            ELSE "エラー: " \o visionLog[k].msg
    /\ exc \notin VisionErrors
    /\ synthLog /= <<>> =>
         /\ synthLog[1].results = frame_results
         /\ Len(frame_results) = Len(frames)
    /\ (pc \in {"finally", "returned"} /\ frames /= <<>> /\ exc = "") =>
         synthLog /= <<>>

C3_Witness ==
    /\ pc = "returned"
    /\ resp.kind = "success"
    /\ Len(frames) = 2
    /\ ~visionLog[1].ok
    /\ visionLog[2].ok
    /\ frame_results[2].content = "B"
    /\ Len(synthLog[1].results) = 2

\* C4: if the synthesis call raises or its reply is not JSON, the report is
\* the fallback (genre 'エラー', confidence "0", no parts, no advice), and
\* the synthesis step hands no exception to analyze.
C4_SynthesisFallback ==
    /\ (synthLog /= <<>> /\ (synthLog[1].raised \/ synthLog[1].text = NotJson)) =>
         /\ final_report.genre = "エラー"
         /\ final_report.genre_confidence = "0"
         /\ final_report.parts = <<>>
         /\ final_report.advice = <<>>
    /\ exc \notin SynthErrors \cup {JsonLoads(NotJson).error}
    /\ synthLog /= <<>> => resp.kind /= "raised"

C4_Witness ==
    /\ pc = "returned"
    /\ resp.kind = "success"
    /\ synthLog[1].text = NotJson
    /\ resp.report.genre = "エラー"

\* C5: the i-th FrameResult has time_seconds i * interval (so the sequence
\* never decreases) and the timestamp that goes with it; a request that
\* succeeds has one FrameResult per decoded frame and reports that count.
C5_OneResultPerFrame ==
    /\ \A k \in 1..Len(frame_results) :
         /\ frame_results[k].time_seconds = k * Interval
         /\ k <= 9 => frame_results[k].timestamp = "00:0" \o Digits[k + 1] \o ".0"
    /\ \A k \in 1..(Len(frame_results) - 1) :
         frame_results[k].time_seconds <= frame_results[k + 1].time_seconds
    /\ (pc = "finally" /\ resp.kind = "success") =>
         /\ Cardinality(Glob(disk[frames_dir])) >= 1
         /\ Len(frame_results) = Cardinality(Glob(disk[frames_dir]))
         /\ resp.total_frames = Cardinality(Glob(disk[frames_dir]))

C5_Witness ==
    /\ pc = "finally"
    /\ resp.kind = "success"
    /\ resp.total_frames = 2
    /\ frame_results[2].time_seconds = 2
    /\ frame_results[2].timestamp = "00:02.0"

\* C6: with a client configured, a request without a 'video' part or with
\* an empty file name gets the 'no file' error (status 400); it creates no
\* scratch directory and calls neither decoder, frame analyzer nor
\* synthesizer.
C6_NoFileRejected ==
    (client = "Client" /\ pc \notin {"load", "idle"}
        /\ (~hasVideo \/ filename = "")) =>
       /\ pc = "returned"
       /\ resp = NoFileResp
       /\ created = {}
       /\ decodeCalls = 0
       /\ visionLog = <<>>
       /\ synthLog = <<>>

C6_Witness ==
    /\ client = "Client"
    /\ pc = "returned"
    /\ hasVideo
    /\ filename = ""
    /\ resp = NoFileResp

\* C7: every exception raised after input validation is turned into the
\* generic error response; none leaves analyze.
C7_NothingEscapes ==
    resp.kind /= "raised"

\* C8: a request that finds no client makes analyze call init_openai before
\* it decides; the 'client not ready' error is returned only after that
\* attempt has failed.
C8_LazyInitAttempted ==
    resp = NoClientResp => initCalls > initAtStart

\* C9: in one request the decoder runs at most once and before any vision
\* call; the list the loop walks is in the order of the file names and the
\* vision calls take its frames one after the other, one call per frame; synthesis is called at most once, only after the call for
\* the last frame, and exactly once in a request that succeeds.
C9_FixedOrderNoRetry ==
    /\ decodeCalls <= 1
    /\ visionLog /= <<>> => (decodeCalls = 1 /\ pc /= "extract")
    /\ Len(visionLog) <= Len(frames)
    /\ \A k \in 1..Len(visionLog) : visionLog[k].frame = frames[k]
    /\ pc \in {"loop", "synth"} =>
         \A k \in 1..(Len(frames) - 1) :
            StrLess(FrameName(frames[k]), FrameName(frames[k + 1]))
    /\ Len(synthLog) <= 1
    /\ synthLog /= <<>> =>
         /\ Len(visionLog) = Len(frames)
         /\ pc /= "loop"
    /\ resp.kind = "success" => Len(synthLog) = 1

C9_Witness ==
    /\ pc = "returned"
    /\ Len(visionLog) = 2
    /\ ~visionLog[1].ok
    /\ Len(synthLog) = 1
    /\ synthLog[1].raised

\* C10 as stated: a request that returns an error response leaves the
\* session exactly as it found it, and a request that changes the session
\* writes last_report and analysis_date together.
C10_SessionOnlyOnSuccess ==
    pc = "returned" =>
       /\ resp.kind /= "success" => session = sessionBefore
       /\ session /= sessionBefore =>
            /\ session.last_report = final_report
            /\ session.analysis_date = Now

\* C10 as amended: the session is written only after synthesis has
\* returned, last_report first and analysis_date second; a request that
\* succeeds has written both; a request that ends in an error and has
\* changed the session failed while writing analysis_date or while
\* building the response.
C10_SessionWrittenAfterSynthesis ==
    /\ pc \notin {"store_date", "respond", "except", "finally", "returned"} =>
         session = sessionBefore
    /\ session /= sessionBefore =>
         /\ synthLog /= <<>>
         /\ DOMAIN sessionBefore \subseteq DOMAIN session
         /\ "last_report" \in DOMAIN session
         /\ session.last_report = final_report
         /\ "analysis_date" \in DOMAIN session =>
              \/ session.analysis_date = Now
              \/ /\ "analysis_date" \in DOMAIN sessionBefore
                 /\ session.analysis_date = sessionBefore.analysis_date
    /\ resp.kind = "success" =>
         /\ DOMAIN session = {"last_report", "analysis_date"}
         /\ session.last_report = final_report
         /\ session.analysis_date = Now
    /\ (resp.kind = "error" /\ session /= sessionBefore) =>
         exc \in {SessionError, JsonifyError}
    /\ resp \in {NoClientResp, NoFileResp, NoFramesResp} =>
         session = sessionBefore

\* A request that arrives with the report and date of an earlier request,
\* stores its own report and date, and then fails building the response.
C10_Witness ==
    /\ pc = "returned"
    /\ resp = ErrorResp(JsonifyError, 500)
    /\ DOMAIN sessionBefore = {"last_report", "analysis_date"}
    /\ session.last_report = final_report
    /\ final_report /= sessionBefore.last_report
    /\ session.analysis_date = Now
    /\ sessionBefore.analysis_date /= Now

=============================================================================
